---- MODULE Spec2Model ----
(***************************************************************************)
(* A model of Rit.mjs: the on-disk repository (.rit/objects, .rit/HEAD,    *)
(* .rit/index) and one command-line invocation at a time.  An invocation   *)
(* constructs a Rit object, whose constructor starts init() without        *)
(* awaiting it, and then runs one of add, commit, log, showCommitDiff.     *)
(* Every awaited fs call is one atomic step, except writeFile, which is    *)
(* two: the open that creates or empties the file, and the write of the    *)
(* data.  The steps of init() and of the command interleave freely.        *)
(* Where two processes share the index, readFile is three steps as well:   *)
(* the open, the taking of the file's size, and the read of that many      *)
(* bytes.                                                                  *)
(*                                                                         *)
(* Values.  Every JavaScript value that reaches a file is a record tagged  *)
(* with a kind:                                                            *)
(*   text   a string that is not JSON, as the sequence of its lines, each  *)
(*          with its terminator; the last line may have none               *)
(*   json   the string JSON.stringify produces for a value                 *)
(*   hex    the 40-digit SHA-1 digest of a content; the digest is ideal:   *)
(*          two contents have the same digest only if they are equal       *)
(*   garbled  an index file that two processes wrote into: a JSON text     *)
(*          followed by the end of a longer one                            *)
(*   torn   what a read returned of a file that grew after its size was    *)
(*          taken: the first bytes of a longer text, which is not JSON     *)
(* The empty string is the text with no lines.                             *)
(***************************************************************************)
EXTENDS Integers, Sequences, FiniteSets, TLC

VARIABLES
    objDir,     \* TRUE when the directory .rit/objects exists
    objects,    \* .rit/objects: file name (a digest) -> file content
    head,       \* content of .rit/HEAD, or ENOENT when the file is missing
    index,      \* content of .rit/index, or ENOENT when the file is missing
    cmd,        \* the command of the running invocation, "idle" between two
    arg,        \* its argument (path, message or commit hash)
    ipc,        \* where init() stands
    pc,         \* where the command's method stands
    loc,        \* the local variables of the command's method
    out,        \* what the method has printed (log and show only)
    err,        \* the error that rejected the method's promise, or "none"
    pre,        \* history: HEAD, index and objects when the invocation began
    made,       \* history: the hashes HEAD was advanced to, oldest first
    added,      \* history: the entries of the adds that completed, oldest first
    nEvents     \* number of add and commit invocations started

vars == <<objDir, objects, head, index, cmd, arg, ipc, pc, loc, out, err,
          pre, made, added, nEvents>>

repo == <<objDir, objects, head, index>>

-----------------------------------------------------------------------------
(* Bounds and input sets *)

\* A run starts at most MaxEvents add and commit invocations.  init, log and
\* show invocations, and kills, are not counted: they cannot grow the
\* repository without bound.
MaxEvents == 3

Paths == {"a.txt", "bb.txt"}
Texts == {<<"hello\n">>, <<"hello\n", "world\n">>}
Messages == {"first"}

-----------------------------------------------------------------------------
(* Values *)

Text(lines) == [kind |-> "text", lines |-> lines]
EmptyStr == Text(<<>>)
ENOENT == [kind |-> "ENOENT"]
null == [kind |-> "null"]
undefined == [kind |-> "undefined"]
NoLocals == [kind |-> "none"]

\* JSON.stringify(v), for the values the program serialises (arrays of
\* {path, hash} and commit records): a string that parses back to v.
JSONstringify(v) == [kind |-> "json", value |-> v]

\* JSON.parse(s) throws SyntaxError unless s is JSON text; undefined is
\* first converted to the string "undefined", which is not JSON.
Parses(s) == s.kind = "json"
JSONparse(s) == s.value

\* JavaScript truthiness of a hash-or-empty value: "", null and undefined
\* are falsy.
Truthy(v) == v \notin {EmptyStr, null, undefined}

hashObject(content) == [kind |-> "hex", of |-> content]

\* A write that is lost.
WriteObject_Lost(objs, name, data) == objs

\* fs.writeFile(path.join(objectPath, name), data)
WriteObject(objs, name, data) ==
    [h \in DOMAIN objs \cup {name} |-> IF h = name THEN data ELSE objs[h]]

NoObjects == [h \in {} |-> EmptyStr]

-----------------------------------------------------------------------------
Init ==
    /\ objDir = FALSE
    /\ objects = NoObjects
    /\ head = ENOENT
    /\ index = ENOENT
    /\ cmd = "idle"
    /\ arg = NoLocals
    /\ ipc = "idle"
    /\ pc = "idle"
    /\ loc = NoLocals
    /\ out = <<>>
    /\ err = "none"
    /\ pre = NoLocals
    /\ made = <<>>
    /\ added = <<>>
    /\ nEvents = 0


-----------------------------------------------------------------------------
(* One invocation: `new Rit()` runs the constructor, which calls init()     *)
(* (lines 13-19); init() runs up to its first await and the command's       *)
(* method is called next (lines 168-190).                                   *)

Snapshot == [head |-> head, index |-> index, objects |-> objects]

Begin(c, a, first) ==
    /\ cmd = "idle"
    /\ cmd' = c
    /\ arg' = a
    /\ ipc' = "mkdir"
    /\ pc' = first
    /\ loc' = NoLocals
    /\ out' = <<>>
    /\ err' = "none"
    /\ pre' = Snapshot
    /\ UNCHANGED <<repo, made, added>>

\* program.command("init"): the constructor only.
StartInit ==
    /\ Begin("init", NoLocals, "done")
    /\ UNCHANGED nEvents

\* program.command("add <file>")
StartAdd ==
    /\ nEvents < MaxEvents
    /\ \E p \in Paths : Begin("add", p, "addReadFile")
    /\ nEvents' = nEvents + 1

\* program.command("commit <message>")
StartCommit ==
    /\ nEvents < MaxEvents
    /\ \E m \in Messages : Begin("commit", m, "commitReadIndex")
    /\ nEvents' = nEvents + 1

\* program.command("log")
StartLog ==
    /\ Begin("log", NoLocals, "logReadHead")
    /\ UNCHANGED nEvents

\* A hash that names no object: nothing the program stores has this content.
AbsentHash == hashObject(Text(<<"no such object">>))

\* program.command("show <commitHash>")
StartShow ==
    /\ \E h \in DOMAIN objects \cup {AbsentHash} :
          Begin("show", h, "showReadCommit")
    /\ UNCHANGED nEvents

Reset ==
    /\ cmd' = "idle"
    /\ arg' = NoLocals
    /\ ipc' = "idle"
    /\ pc' = "idle"
    /\ loc' = NoLocals
    /\ out' = <<>>
    /\ err' = "none"
    /\ pre' = NoLocals

\* The process ends: when both init() and the method have finished, or when
\* the method's promise was rejected (an unhandled rejection ends the process
\* whatever init() is doing).
Exit ==
    /\ cmd # "idle"
    /\ \/ pc = "done" /\ ipc = "done"
       \/ pc = "failed"
    /\ Reset
    /\ UNCHANGED <<repo, made, added, nEvents>>

\* The process is killed while it waits in its event loop: between two of
\* its file-system calls, or inside a writeFile between the open that empties
\* the file and the write that fills it.  The files stay as they are.
Crash ==
    /\ cmd # "idle"
    /\ pc # "failed"
    /\ ~(pc = "done" /\ ipc = "done")
    /\ Reset
    /\ UNCHANGED <<repo, made, added, nEvents>>

-----------------------------------------------------------------------------
(* init(), lines 22-30 *)

\* line 23: fs.mkdir(objectPath, {recursive: true})
InitMkdir ==
    /\ ipc = "mkdir"
    /\ objDir' = TRUE
    /\ ipc' = "head"
    /\ UNCHANGED <<objects, head, index, cmd, arg, pc, loc, out, err, pre,
                   made, added, nEvents>>

\* line 25 with a plain writeFile: HEAD is emptied when it exists.
InitHead_Truncate ==
    /\ ipc = "head"
    /\ head' = EmptyStr
    /\ ipc' = "index"
    /\ UNCHANGED <<objDir, objects, index, cmd, arg, pc, loc, out, err, pre,
                   made, added, nEvents>>

\* line 25: writeFile(headPath, "", {flag: "wx"}); EEXIST goes to the catch
\* of line 27, which skips line 26.
InitHead ==
    /\ ipc = "head"
    /\ IF head = ENOENT
         THEN head' = EmptyStr /\ ipc' = "index"
         ELSE head' = head /\ ipc' = "done"
    /\ UNCHANGED <<objDir, objects, index, cmd, arg, pc, loc, out, err, pre,
                   made, added, nEvents>>

\* line 26, first half: writeFile opens the index with O_CREAT|O_EXCL, which
\* creates it empty, or fails with EEXIST (caught at line 27).
InitIndexOpen ==
    /\ ipc = "index"
    /\ IF index = ENOENT
         THEN index' = EmptyStr /\ ipc' = "indexWrite"
         ELSE index' = index /\ ipc' = "done"
    /\ UNCHANGED <<objDir, objects, head, cmd, arg, pc, loc, out, err, pre,
                   made, added, nEvents>>

\* line 26, second half: "[]" is written to the file just created.
InitIndexWrite ==
    /\ ipc = "indexWrite"
    /\ index' = JSONstringify(<<>>)
    /\ ipc' = "done"
    /\ UNCHANGED <<objDir, objects, head, cmd, arg, pc, loc, out, err, pre,
                   made, added, nEvents>>

InitStep == InitMkdir \/ InitHead \/ InitIndexOpen \/ InitIndexWrite

-----------------------------------------------------------------------------
(* The method's promise is rejected with error e. *)
Fail(e) ==
    /\ pc' = "failed"
    /\ err' = e
    /\ UNCHANGED <<repo, cmd, arg, ipc, loc, out, pre, made, added, nEvents>>

(* add(fileToBeAdded), lines 38-46 *)

\* lines 39-41: read the working file, hash it.  The working tree is the
\* user's: the file holds any of Texts, or does not exist.
AddReadFile ==
    /\ cmd = "add" /\ pc = "addReadFile"
    /\ \/ Fail("ENOENT")
       \/ \E t \in Texts :
            /\ loc' = [fileData |-> Text(t), fileHash |-> hashObject(Text(t))]
            /\ pc' = "addOpenObject"
            /\ UNCHANGED <<repo, cmd, arg, ipc, out, err, pre, made, added, nEvents>>

\* add without its line 43: the blob is never written.
AddOpenObject_Skipped ==
    /\ cmd = "add" /\ pc = "addOpenObject"
    /\ pc' = "addReadIndex"
    /\ UNCHANGED <<repo, cmd, arg, ipc, loc, out, err, pre, made, added,
                   nEvents>>

\* lines 42-43, first half: writeFile opens objects/<fileHash> with
\* O_CREAT|O_TRUNC: a new file is created empty, a file that exists is
\* emptied.  The open is rejected when the directory does not exist.
AddOpenObject ==
    /\ cmd = "add" /\ pc = "addOpenObject"
    /\ IF ~objDir
         THEN Fail("ENOENT")
         ELSE /\ objects' = WriteObject(objects, loc.fileHash, EmptyStr)
              /\ pc' = "addWriteObject"
              /\ UNCHANGED <<objDir, head, index, cmd, arg, ipc, loc, out,
                             err, pre, made, added, nEvents>>

\* line 43, second half: fileData is written into the opened file.
AddWriteObject ==
    /\ cmd = "add" /\ pc = "addWriteObject"
    /\ objects' = WriteObject(objects, loc.fileHash, loc.fileData)
    /\ pc' = "addReadIndex"
    /\ UNCHANGED <<objDir, head, index, cmd, arg, ipc, loc, out, err, pre,
                   made, added, nEvents>>

\* A push that first drops the earlier entries of the same path.
Push_Dedup(idx, p, h) ==
    Append(SelectSeq(idx, LAMBDA e : e.path # p), [path |-> p, hash |-> h])

\* index.push({path, hash}), line 52
Push(idx, p, h) == Append(idx, [path |-> p, hash |-> h])

\* updateStagingArea, lines 49-52: read and parse the index, push the entry.
AddReadIndex ==
    /\ cmd = "add" /\ pc = "addReadIndex"
    /\ IF index = ENOENT THEN Fail("ENOENT")
       ELSE IF ~Parses(index) THEN Fail("SyntaxError")
       ELSE /\ loc' = [fileData |-> loc.fileData, fileHash |-> loc.fileHash,
                       index |-> Push(JSONparse(index), arg, loc.fileHash)]
            /\ pc' = "addOpenIndex"
            /\ UNCHANGED <<repo, cmd, arg, ipc, out, err, pre, made, added,
                           nEvents>>

\* updateStagingArea, line 53, first half: writeFile opens the index with
\* O_CREAT|O_TRUNC, which empties it.
AddOpenIndex ==
    /\ cmd = "add" /\ pc = "addOpenIndex"
    /\ index' = EmptyStr
    /\ pc' = "addWriteIndex"
    /\ UNCHANGED <<objDir, objects, head, cmd, arg, ipc, loc, out, err, pre,
                   made, added, nEvents>>

\* line 53, second half: JSON.stringify(index) is written into the file.
AddWriteIndex ==
    /\ cmd = "add" /\ pc = "addWriteIndex"
    /\ index' = JSONstringify(loc.index)
    /\ added' = Append(added, [path |-> arg, hash |-> loc.fileHash])
    /\ pc' = "done"
    /\ UNCHANGED <<objDir, objects, head, cmd, arg, ipc, loc, out, err, pre,
                   made, nEvents>>

AddStep ==
    \/ AddReadFile \/ AddOpenObject \/ AddWriteObject
    \/ AddReadIndex \/ AddOpenIndex \/ AddWriteIndex

-----------------------------------------------------------------------------
(* commit(message), lines 56-74 *)

\* A commit that refuses an empty index.
CommitReadIndex_RejectEmpty ==
    /\ cmd = "commit" /\ pc = "commitReadIndex"
    /\ IF index = ENOENT THEN Fail("ENOENT")
       ELSE IF ~Parses(index) THEN Fail("SyntaxError")
       ELSE IF JSONparse(index) = <<>> THEN Fail("NothingToCommit")
       ELSE /\ loc' = [index |-> JSONparse(index)]
            /\ pc' = "commitReadHead"
            /\ UNCHANGED <<repo, cmd, arg, ipc, out, err, pre, made, added, nEvents>>

\* lines 57-59
CommitReadIndex ==
    /\ cmd = "commit" /\ pc = "commitReadIndex"
    /\ IF index = ENOENT THEN Fail("ENOENT")
       ELSE IF ~Parses(index) THEN Fail("SyntaxError")
       ELSE /\ loc' = [index |-> JSONparse(index)]
            /\ pc' = "commitReadHead"
            /\ UNCHANGED <<repo, cmd, arg, ipc, out, err, pre, made, added, nEvents>>

\* A getCurrentHead that never finds a head.
getCurrentHead_Null == null

\* getCurrentHead, lines 76-82: the content of HEAD, null if it cannot be read
getCurrentHead == IF head = ENOENT THEN null ELSE head

\* new Date().toISOString(), line 62.  Two invocations are never started in
\* the same millisecond, so each commit reads a time of its own; the number
\* of add and commit invocations started so far serves as the clock.
Now == nEvents

\* lines 61-66
CommitData(ts, message, idx, parent) ==
    [timeStamp |-> ts, message |-> message, files |-> idx, parent |-> parent]

\* lines 60-69: read HEAD, build the record at the current time, hash it.
CommitReadHead ==
    /\ cmd = "commit" /\ pc = "commitReadHead"
    /\ LET data == CommitData(Now, arg, loc.index, getCurrentHead)
       IN  loc' = [index |-> loc.index,
                   commitData |-> data,
                   commitHash |-> hashObject(JSONstringify(data))]
    /\ pc' = "commitOpenObject"
    /\ UNCHANGED <<repo, cmd, arg, ipc, out, err, pre, made, added, nEvents>>

\* line 70, first half: writeFile opens objects/<commitHash> with
\* O_CREAT|O_TRUNC.
CommitOpenObject ==
    /\ cmd = "commit" /\ pc = "commitOpenObject"
    /\ IF ~objDir
         THEN Fail("ENOENT")
         ELSE /\ objects' = WriteObject(objects, loc.commitHash, EmptyStr)
              /\ pc' = "commitWriteObject"
              /\ UNCHANGED <<objDir, head, index, cmd, arg, ipc, loc, out,
                             err, pre, made, added, nEvents>>

\* line 70, second half: the serialised record is written into the file.
CommitWriteObject ==
    /\ cmd = "commit" /\ pc = "commitWriteObject"
    /\ objects' = WriteObject(objects, loc.commitHash,
                              JSONstringify(loc.commitData))
    /\ pc' = "commitOpenHead"
    /\ UNCHANGED <<objDir, head, index, cmd, arg, ipc, loc, out, err, pre,
                   made, added, nEvents>>

\* line 71, first half: writeFile opens HEAD with O_CREAT|O_TRUNC, which
\* empties it.
CommitOpenHead ==
    /\ cmd = "commit" /\ pc = "commitOpenHead"
    /\ head' = EmptyStr
    /\ pc' = "commitWriteHead"
    /\ UNCHANGED <<objDir, objects, index, cmd, arg, ipc, loc, out, err, pre,
                   made, added, nEvents>>

\* line 71, second half: the hash is written into HEAD.
CommitWriteHead ==
    /\ cmd = "commit" /\ pc = "commitWriteHead"
    /\ head' = loc.commitHash
    /\ made' = Append(made, loc.commitHash)
    /\ UNCHANGED added
    /\ pc' = "commitOpenIndex"
    /\ UNCHANGED <<objDir, objects, index, cmd, arg, ipc, loc, out, err, pre,
                   nEvents>>

\* commit without its line 72: the index keeps its entries.
CommitOpenIndex_Skipped ==
    /\ cmd = "commit" /\ pc = "commitOpenIndex"
    /\ pc' = "done"
    /\ UNCHANGED <<repo, cmd, arg, ipc, loc, out, err, pre, made, added,
                   nEvents>>

\* line 72, first half: writeFile opens the index with O_CREAT|O_TRUNC,
\* which empties it.
CommitOpenIndex ==
    /\ cmd = "commit" /\ pc = "commitOpenIndex"
    /\ index' = EmptyStr
    /\ pc' = "commitWriteIndex"
    /\ UNCHANGED <<objDir, objects, head, cmd, arg, ipc, loc, out, err, pre,
                   made, added, nEvents>>

\* line 72, second half: "[]" is written into the index.
CommitWriteIndex ==
    /\ cmd = "commit" /\ pc = "commitWriteIndex"
    /\ index' = JSONstringify(<<>>)
    /\ pc' = "done"
    /\ UNCHANGED <<objDir, objects, head, cmd, arg, ipc, loc, out, err, pre,
                   made, added, nEvents>>

CommitStep ==
    \/ CommitReadIndex \/ CommitReadHead
    \/ CommitOpenObject \/ CommitWriteObject
    \/ CommitOpenHead \/ CommitWriteHead
    \/ CommitOpenIndex \/ CommitWriteIndex

-----------------------------------------------------------------------------
(* log(), lines 84-100 *)

\* A filter that keeps every key.
WithoutFiles_Keep(data) == data

\* lines 94-96: the record without its "files" key
WithoutFiles(data) == [k \in DOMAIN data \ {"files"} |-> data[k]]

\* line 85, and the first test of line 86
LogReadHead ==
    /\ cmd = "log" /\ pc = "logReadHead"
    /\ loc' = [currentCommitHash |-> getCurrentHead]
    /\ pc' = IF Truthy(getCurrentHead) THEN "logReadCommit" ELSE "done"
    /\ UNCHANGED <<repo, cmd, arg, ipc, out, err, pre, made, added, nEvents>>

\* lines 87-98, and the next test of line 86
LogReadCommit ==
    /\ cmd = "log" /\ pc = "logReadCommit"
    /\ LET h == loc.currentCommitHash IN
       IF h \notin DOMAIN objects THEN Fail("ENOENT")
       ELSE IF ~Parses(objects[h]) THEN Fail("SyntaxError")
       ELSE LET commitData == JSONparse(objects[h]) IN
            /\ out' = Append(out, WithoutFiles(commitData))
            /\ loc' = [currentCommitHash |-> commitData.parent]
            /\ pc' = IF Truthy(commitData.parent) THEN "logReadCommit"
                                                  ELSE "done"
            /\ UNCHANGED <<repo, cmd, arg, ipc, err, pre, made, added, nEvents>>

LogStep == LogReadHead \/ LogReadCommit

-----------------------------------------------------------------------------
(* showCommitDiff(commitHash), lines 101-137 *)

\* getCommitData, lines 138-145: the file's content; a failed read is caught
\* and logged, and the function then returns undefined.
getCommitData(h) == IF h \in DOMAIN objects THEN objects[h] ELSE undefined

\* getFileContent, lines 146-149
HasObject(h) == h \in DOMAIN objects

\* A lookup that takes the last entry with the path.
FindPath_Last(files, p) ==
    IF \E j \in 1..Len(files) : files[j].path = p
      THEN CHOOSE j \in 1..Len(files) :
             /\ files[j].path = p
             /\ \A k \in (j + 1)..Len(files) : files[k].path # p
      ELSE 0

\* Array.prototype.find of lines 151-153: the position of the first entry of
\* files whose path is p, 0 when there is none.
FindPath(files, p) ==
    IF \E j \in 1..Len(files) : files[j].path = p
      THEN CHOOSE j \in 1..Len(files) :
             /\ files[j].path = p
             /\ \A k \in 1..(j - 1) : files[k].path # p
      ELSE 0

\* lines 102-107, and the first test of the for-loop of line 108.
\* JSON.parse(undefined) throws; the parsed value of a stored commit is an
\* object, so the test of line 103 is false whenever line 102 returns.
ShowReadCommit ==
    /\ cmd = "show" /\ pc = "showReadCommit"
    /\ LET raw == getCommitData(arg) IN
       IF ~Parses(raw) THEN Fail("SyntaxError")
       ELSE LET commitData == JSONparse(raw) IN
            /\ loc' = [commitData |-> commitData, i |-> 1]
            /\ out' = <<[kind |-> "commit", data |-> commitData]>>
            /\ pc' = IF Len(commitData.files) > 0 THEN "showReadFile"
                                                  ELSE "done"
            /\ UNCHANGED <<repo, cmd, arg, ipc, err, pre, made, added, nEvents>>

\* The for-loop of line 108 goes on to its next entry, or ends.
ShowAdvance(printed) ==
    /\ out' = out \o printed
    /\ loc' = [commitData |-> loc.commitData, i |-> loc.i + 1]
    /\ pc' = IF loc.i < Len(loc.commitData.files) THEN "showReadFile"
                                                  ELSE "done"
    /\ UNCHANGED <<repo, cmd, arg, ipc, err, pre, made, added, nEvents>>

\* lines 109-112: print the path, read and print the entry's blob, test parent
ShowReadFile ==
    /\ cmd = "show" /\ pc = "showReadFile"
    /\ LET file == loc.commitData.files[loc.i] IN
       IF ~HasObject(file.hash) THEN Fail("ENOENT")
       ELSE LET fileContent == objects[file.hash]
                printed == <<[kind |-> "file", path |-> file.path,
                              content |-> fileContent]>>
            IN  IF Truthy(loc.commitData.parent)
                  THEN /\ out' = out \o printed
                       /\ loc' = [commitData |-> loc.commitData, i |-> loc.i,
                                  fileContent |-> fileContent]
                       /\ pc' = "showReadParent"
                       /\ UNCHANGED <<repo, cmd, arg, ipc, err, pre, made, added,
                                      nEvents>>
                  ELSE ShowAdvance(printed)

\* lines 114-120 and 151-154: read and parse the parent commit, look the path
\* up in its files.  With no match getParentFileContent returns undefined,
\* which is not the string "undefined", so line 123 calls
\* diffLines(undefined, fileContent), and that throws a TypeError.
ShowReadParent ==
    /\ cmd = "show" /\ pc = "showReadParent"
    /\ LET raw == getCommitData(loc.commitData.parent) IN
       IF ~Parses(raw) THEN Fail("SyntaxError")
       ELSE LET parentFiles == JSONparse(raw).files
                j == FindPath(parentFiles, loc.commitData.files[loc.i].path)
            IN  IF j = 0 THEN Fail("TypeError")
                ELSE /\ loc' = [commitData |-> loc.commitData, i |-> loc.i,
                                fileContent |-> loc.fileContent,
                                parentFile |-> parentFiles[j]]
                     /\ pc' = "showReadParentFile"
                     /\ UNCHANGED <<repo, cmd, arg, ipc, out, err, pre, made, added,
                                    nEvents>>

\* diffLines of the diff library (the import of line 6, called at line 123),
\* version 5.2.0.  A text is the sequence of its lines, each with its
\* terminator; a part holds a run of whole lines that are all kept, all
\* removed or all added.  The library searches edit paths diagonal by
\* diagonal, one more edit per round; a path holds the number of old lines it
\* has consumed and its components so far, and on diagonal d a path that
\* consumed o old lines has consumed o - d new lines.
DiffPart(isAdded, isRemoved, lines) ==
    [added |-> isAdded, removed |-> isRemoved, value |-> lines]

NoPath == [none |-> TRUE]

Min(x, y) == IF x <= y THEN x ELSE y

Max(x, y) == IF x >= y THEN x ELSE y

\* The number of lines the two texts share from the given positions on.
RECURSIVE commonCount(_, _, _, _)
commonCount(old, new, o, n) ==
    IF o < Len(old) /\ n < Len(new) /\ old[o + 1] = new[n + 1]
      THEN 1 + commonCount(old, new, o + 1, n + 1)
      ELSE 0

\* One more line of the given kind on a path: it joins the last component
\* when that is of the same kind, and starts a component otherwise.
addToPath(path, isAdded, isRemoved, oldPosInc) ==
    LET k == Len(path.components)
        joins == /\ k > 0
                 /\ path.components[k].added = isAdded
                 /\ path.components[k].removed = isRemoved
    IN  [oldPos |-> path.oldPos + oldPosInc,
         components |->
           IF joins
             THEN [path.components EXCEPT ![k].count = @ + 1]
             ELSE Append(path.components,
                         [count |-> 1, added |-> isAdded,
                          removed |-> isRemoved])]

\* Follow the diagonal while the two texts agree.
extractCommon(path, old, new, diagonalPath) ==
    LET c == commonCount(old, new, path.oldPos, path.oldPos - diagonalPath)
    IN  [oldPos |-> path.oldPos + c,
         components |->
           IF c > 0
             THEN Append(path.components,
                         [count |-> c, added |-> FALSE, removed |-> FALSE])
             ELSE path.components]

\* The parts of a finished path; a removal that directly follows an addition
\* is put in front of it.
RECURSIVE buildValues(_, _, _, _, _, _)
buildValues(components, old, new, o, n, acc) ==
    IF components = <<>> THEN acc
    ELSE LET c == Head(components)
             rest == Tail(components)
         IN  IF ~c.removed
               THEN buildValues(rest, old, new,
                                IF c.added THEN o ELSE o + c.count,
                                n + c.count,
                                Append(acc, DiffPart(c.added, FALSE,
                                         SubSeq(new, n + 1, n + c.count))))
               ELSE LET part == DiffPart(FALSE, TRUE,
                                         SubSeq(old, o + 1, o + c.count))
                        k == Len(acc)
                    IN  buildValues(rest, old, new, o + c.count, n,
                                    IF k > 0 /\ acc[k].added
                                      THEN SubSeq(acc, 1, k - 1)
                                             \o <<part, acc[k]>>
                                      ELSE Append(acc, part))

\* One step of the search: diagonal d of the round with editLength edits.
\* minD and maxD keep the search off diagonals that ran out of one text.
RECURSIVE execEditLength(_, _, _, _, _, _, _)
execEditLength(old, new, bestPath, minD, maxD, editLength, d) ==
    IF d > Min(maxD, editLength)
      THEN execEditLength(old, new, bestPath, minD, maxD, editLength + 1,
                          Max(minD, 0 - (editLength + 1)))
    ELSE
      LET removePath == bestPath[d - 1]
          addPath == bestPath[d + 1]
          cleared == IF removePath # NoPath
                       THEN [bestPath EXCEPT ![d - 1] = NoPath]
                       ELSE bestPath
          canAdd == /\ addPath # NoPath
                    /\ 0 <= addPath.oldPos - 1 - d
                    /\ addPath.oldPos - 1 - d < Len(new)
          canRemove == removePath # NoPath /\ removePath.oldPos < Len(old)
      IN  IF ~canAdd /\ ~canRemove
            THEN execEditLength(old, new, [cleared EXCEPT ![d] = NoPath],
                                minD, maxD, editLength, d + 2)
          ELSE
            LET takeAdd == \/ ~canRemove
                           \/ canAdd /\ removePath.oldPos + 1 < addPath.oldPos
                stepped == IF takeAdd
                             THEN addToPath(addPath, TRUE, FALSE, 0)
                             ELSE addToPath(removePath, FALSE, TRUE, 1)
                basePath == extractCommon(stepped, old, new, d)
                newPos == basePath.oldPos - d
            IN  IF basePath.oldPos >= Len(old) /\ newPos >= Len(new)
                  THEN buildValues(basePath.components, old, new, 0, 0, <<>>)
                  ELSE execEditLength(
                         old, new, [cleared EXCEPT ![d] = basePath],
                         IF newPos >= Len(new) THEN Max(minD, d + 1) ELSE minD,
                         IF basePath.oldPos >= Len(old)
                           THEN Min(maxD, d - 1) ELSE maxD,
                         editLength, d + 2)

\* A diff that reports the new text only and says nothing of the lines that
\* were taken out.
diffLines_NoRemovals(old, new) ==
    <<DiffPart(old # new /\ new # <<>>, FALSE, new)>>

\* Two texts that agree all along give one part with the whole text, also
\* when both are empty.
diffLines(old, new) ==
    LET far == Len(old) + Len(new) + 2
        seed == extractCommon([oldPos |-> 0, components |-> <<>>],
                              old, new, 0)
    IN  IF seed.oldPos >= Len(old) /\ seed.oldPos >= Len(new)
          THEN <<DiffPart(FALSE, FALSE, new)>>
          ELSE execEditLength(
                 old, new,
                 [d \in (0 - far)..far |-> IF d = 0 THEN seed ELSE NoPath],
                 0 - far, far, 1, 0 - 1)

\* lines 155 and 121-134: read the matched blob; unless it is the string
\* "undefined", print the parts of the diff of the two texts.
ShowReadParentFile ==
    /\ cmd = "show" /\ pc = "showReadParentFile"
    /\ IF ~HasObject(loc.parentFile.hash) THEN Fail("ENOENT")
       ELSE LET old == objects[loc.parentFile.hash] IN
            IF old # Text(<<"undefined">>)
              THEN ShowAdvance(<<[kind |-> "diff", old |-> old,
                                  new |-> loc.fileContent,
                                  parts |-> diffLines(old.lines,
                                                      loc.fileContent.lines)]>>)
              ELSE ShowAdvance(<<[kind |-> "First Commit"]>>)

ShowStep ==
    \/ ShowReadCommit \/ ShowReadFile \/ ShowReadParent \/ ShowReadParentFile

-----------------------------------------------------------------------------
Start == StartInit \/ StartAdd \/ StartCommit \/ StartLog \/ StartShow

Next ==
    \/ Start
    \/ InitStep
    \/ AddStep
    \/ CommitStep
    \/ LogStep
    \/ ShowStep
    \/ Exit
    \/ Crash

Spec == Init /\ [][Next]_vars

\* The invocations that write (init, add, commit) when none is killed: every
\* method runs until it returns or is rejected.
SeqNext ==
    \/ StartInit
    \/ StartAdd
    \/ StartCommit
    \/ InitStep
    \/ AddStep
    \/ CommitStep
    \/ Exit

SeqSpec == Init /\ [][SeqNext]_vars

\* The program without show, which writes nothing: the invocations that log's
\* claim is about.  A method that is not killed is resumed when its pending
\* fs call completes, so log's steps are weakly fair.
NextLog ==
    \/ StartInit \/ StartAdd \/ StartCommit \/ StartLog
    \/ InitStep
    \/ AddStep
    \/ CommitStep
    \/ LogStep
    \/ Exit
    \/ Crash

LogSpec == Init /\ [][NextLog]_vars /\ WF_vars(LogStep)

\* The line diff on its own: a pair of texts is drawn, and the diff of the
\* pair is computed as line 123 computes it.
MaxDiffLen == 3

DiffLineSet == {"a\n", "b\n", "c\n"}

RECURSIVE SeqsUpTo(_, _)
SeqsUpTo(S, n) ==
    IF n = 0 THEN {<<>>}
    ELSE LET shorter == SeqsUpTo(S, n - 1) IN
         shorter \cup {Append(t, x) : t \in shorter, x \in S}

DiffTexts == SeqsUpTo(DiffLineSet, MaxDiffLen)

DiffInit ==
    /\ objDir = FALSE /\ objects = NoObjects
    /\ head = ENOENT /\ index = ENOENT
    /\ cmd = "diff" /\ ipc = "done" /\ pc = "diffLines"
    /\ \E old \in DiffTexts, new \in DiffTexts :
          arg = [old |-> Text(old), new |-> Text(new)]
    /\ loc = NoLocals /\ out = <<>> /\ err = "none"
    /\ pre = NoLocals /\ made = <<>> /\ added = <<>> /\ nEvents = 0

DiffApply ==
    /\ cmd = "diff" /\ pc = "diffLines"
    /\ out' = diffLines(arg.old.lines, arg.new.lines)
    /\ pc' = "done"
    /\ UNCHANGED <<repo, cmd, arg, ipc, loc, err, pre, made, added, nEvents>>

DiffSpec == DiffInit /\ [][DiffApply]_vars

\* show on its own: it reads and never writes, so it is run on repositories
\* drawn from those that adds and commits build.  Such a repository holds a
\* root commit and a commit on top of it, each with at most MaxShowFiles
\* entries, and the blobs of the entries; show is asked for any of its
\* objects, or for a hash that names none.
MaxShowFiles == 2

\* The second text is the one line 121 looks for.
ShowTexts == {<<"hello\n">>, <<"undefined">>}

ShowEntries ==
    {[path |-> p, hash |-> hashObject(Text(t))] : p \in Paths, t \in ShowTexts}

ShowFiles == SeqsUpTo(ShowEntries, MaxShowFiles)

\* The repository after the adds of files1, a commit, the adds of files2 and
\* a second commit, every invocation run to its end.
ShowInit ==
    /\ \E files1 \in ShowFiles, files2 \in ShowFiles :
         LET m == CHOOSE x \in Messages : TRUE
             commit1 == CommitData(Len(files1) + 1, m, files1, EmptyStr)
             hash1 == hashObject(JSONstringify(commit1))
             commit2 == CommitData(Len(files1) + Len(files2) + 2, m, files2,
                                   hash1)
             hash2 == hashObject(JSONstringify(commit2))
             staged == files1 \o files2
             blobs == {staged[i].hash : i \in 1..Len(staged)}
         IN  /\ objects = [h \in blobs \cup {hash1, hash2} |-> h.of]
             /\ head = hash2
             /\ made = <<hash1, hash2>>
             /\ added = staged
             /\ nEvents = Len(staged) + 2
    /\ objDir = TRUE
    /\ index = JSONstringify(<<>>)
    /\ cmd = "idle" /\ arg = NoLocals
    /\ ipc = "idle" /\ pc = "idle"
    /\ loc = NoLocals /\ out = <<>> /\ err = "none"
    /\ pre = NoLocals

\* On such a repository init() finds HEAD and ends at its catch.
ShowNext ==
    \/ StartShow
    \/ InitMkdir
    \/ InitHead
    \/ ShowStep
    \/ Exit

ShowSpec == ShowInit /\ [][ShowNext]_vars

-----------------------------------------------------------------------------
(* Two invocations of add at once on one repository.  Each is a process of
   its own with its own constructor, init() and add(); the files are shared.
   Here ipc, pc, arg, loc and err hold one value per process, and made is
   the order in which the processes wrote the index. *)

Procs == {1, 2}

\* The entries an add can stage.
RaceEntries ==
    {[path |-> p, hash |-> hashObject(Text(t))] : p \in Paths, t \in Texts}

\* The index of an initialised repository when the two start: empty, or one
\* entry left by an earlier add.
RaceIndexes == {<<>>} \cup {<<e>> : e \in RaceEntries}

RaceInit ==
    /\ objDir = TRUE
    /\ head = EmptyStr
    /\ \E idx \in RaceIndexes :
         /\ index = JSONstringify(idx)
         /\ objects = [h \in {idx[i].hash : i \in 1..Len(idx)} |-> h.of]
    /\ cmd = "race"
    /\ arg \in [Procs -> Paths]
    /\ ipc = [p \in Procs |-> "mkdir"]
    /\ pc = [p \in Procs |-> "addReadFile"]
    /\ loc = [p \in Procs |-> NoLocals]
    /\ err = [p \in Procs |-> "none"]
    /\ out = <<>>
    /\ pre = Snapshot
    /\ made = <<>>
    /\ added = <<>>
    /\ nEvents = 0

\* line 23 in process p
RaceInitMkdir(p) ==
    /\ ipc[p] = "mkdir"
    /\ objDir' = TRUE
    /\ ipc' = [ipc EXCEPT ![p] = "head"]
    /\ UNCHANGED <<objects, head, index, cmd, arg, pc, loc, out, err, pre,
                   made, added, nEvents>>

\* line 25 in process p: the exclusive create of HEAD; when it fails, lines
\* 27-29 end init.
RaceInitHead(p) ==
    /\ ipc[p] = "head"
    /\ IF head = ENOENT
         THEN head' = EmptyStr /\ ipc' = [ipc EXCEPT ![p] = "index"]
         ELSE head' = head /\ ipc' = [ipc EXCEPT ![p] = "done"]
    /\ UNCHANGED <<objDir, objects, index, cmd, arg, pc, loc, out, err, pre,
                   made, added, nEvents>>

\* lines 39-41 in process p; readFile rejects when the working file is
\* missing, and the rejection ends the process.
RaceAddReadFile(p) ==
    /\ pc[p] = "addReadFile"
    /\ \/ /\ \E t \in Texts :
               loc' = [loc EXCEPT ![p] = [fileData |-> Text(t),
                                          fileHash |-> hashObject(Text(t))]]
          /\ pc' = [pc EXCEPT ![p] = "addOpenObject"]
          /\ UNCHANGED err
       \/ /\ pc' = [pc EXCEPT ![p] = "failed"]
          /\ err' = [err EXCEPT ![p] = "ENOENT"]
          /\ UNCHANGED loc
    /\ UNCHANGED <<repo, cmd, arg, ipc, out, pre, made, added, nEvents>>

\* lines 42-43 in process p: writeFile opens the object file, which creates
\* it or empties it
RaceAddOpenObject(p) ==
    /\ pc[p] = "addOpenObject"
    /\ IF ~objDir
         THEN /\ pc' = [pc EXCEPT ![p] = "failed"]
              /\ err' = [err EXCEPT ![p] = "ENOENT"]
              /\ UNCHANGED objects
         ELSE /\ objects' = WriteObject(objects, loc[p].fileHash, EmptyStr)
              /\ pc' = [pc EXCEPT ![p] = "addWriteObject"]
              /\ UNCHANGED err
    /\ UNCHANGED <<objDir, head, index, cmd, arg, ipc, loc, out, pre, made, added,
                   nEvents>>

\* line 43 in process p: the data goes into the opened file.  Two processes
\* that write one object write the same bytes.
RaceAddWriteObject(p) ==
    /\ pc[p] = "addWriteObject"
    /\ objects' = WriteObject(objects, loc[p].fileHash, loc[p].fileData)
    /\ pc' = [pc EXCEPT ![p] = "addOpenReadIndex"]
    /\ UNCHANGED <<objDir, head, index, cmd, arg, ipc, loc, out, err, pre, made,
                   added, nEvents>>

\* The number of characters of the index file.  An entry is serialised as
\* {"path":"...","hash":"..."} with a digest of 40 characters.
EntrySize(entry) == 61 + Len(entry.path)

RECURSIVE EntriesSize(_)
EntriesSize(entries) ==
    IF entries = <<>> THEN 0
    ELSE EntrySize(Head(entries)) + EntriesSize(Tail(entries))
           + (IF Len(entries) > 1 THEN 1 ELSE 0)

Size(content) ==
    IF content.kind = "json" THEN 2 + EntriesSize(content.value)
    ELSE IF content.kind = "garbled" THEN content.size
    ELSE 0

\* What a read of at most size bytes returns from a file that holds content.
\* A size of 0 was taken from an empty file, and readFile then reads to the
\* end of the file.  The first bytes of a longer JSON text are not JSON; the
\* first bytes of a garbled file are JSON when they end where its first text
\* ends.
ReadUpTo(content, size) ==
    IF size = 0 \/ Size(content) <= size THEN content
    ELSE IF content.kind = "garbled" /\ Size(content.start) = size
           THEN content.start
    ELSE [kind |-> "torn", of |-> content, size |-> size]

\* line 50 in process p, first await: readFile opens the index
RaceAddOpenReadIndex(p) ==
    /\ pc[p] = "addOpenReadIndex"
    /\ IF index = ENOENT
         THEN /\ pc' = [pc EXCEPT ![p] = "failed"]
              /\ err' = [err EXCEPT ![p] = "ENOENT"]
         ELSE /\ pc' = [pc EXCEPT ![p] = "addStatIndex"]
              /\ UNCHANGED err
    /\ UNCHANGED <<repo, cmd, arg, ipc, loc, out, pre, made, added, nEvents>>

\* line 50 in process p, second await: readFile takes the size of the file
\* it opened; it will ask for that many bytes
RaceAddStatIndex(p) ==
    /\ pc[p] = "addStatIndex"
    /\ loc' = [loc EXCEPT ![p] = [fileData |-> loc[p].fileData,
                                  fileHash |-> loc[p].fileHash,
                                  size |-> Size(index)]]
    /\ pc' = [pc EXCEPT ![p] = "addReadIndex"]
    /\ UNCHANGED <<repo, cmd, arg, ipc, out, err, pre, made, added, nEvents>>

\* lines 50-52 in process p, third await: the read returns what the file
\* holds now, up to the size taken before; the text is parsed and the entry
\* pushed
RaceAddReadIndex(p) ==
    /\ pc[p] = "addReadIndex"
    /\ LET data == ReadUpTo(index, loc[p].size) IN
       IF ~Parses(data)
         THEN /\ pc' = [pc EXCEPT ![p] = "failed"]
              /\ err' = [err EXCEPT ![p] = "SyntaxError"]
              /\ UNCHANGED loc
         ELSE /\ loc' = [loc EXCEPT ![p] =
                           [fileData |-> loc[p].fileData,
                            fileHash |-> loc[p].fileHash,
                            index |-> Push(JSONparse(data), arg[p],
                                           loc[p].fileHash)]]
              /\ pc' = [pc EXCEPT ![p] = "addOpenIndex"]
              /\ UNCHANGED err
    /\ UNCHANGED <<repo, cmd, arg, ipc, out, pre, made, added, nEvents>>

\* line 53 in process p: writeFile opens the index, which empties it
RaceAddOpenIndex(p) ==
    /\ pc[p] = "addOpenIndex"
    /\ index' = EmptyStr
    /\ pc' = [pc EXCEPT ![p] = "addWriteIndex"]
    /\ UNCHANGED <<objDir, objects, head, cmd, arg, ipc, loc, out, err, pre,
                   made, added, nEvents>>

\* The bytes of data written at the start of a file that holds content: the
\* file was opened without O_APPEND and the write does not cut it, so what
\* lies beyond the written bytes stays.  A JSON text followed by the end of
\* a longer one is not JSON.
Overwrite(content, data) ==
    IF Size(content) <= Size(data) THEN data
    ELSE [kind |-> "garbled", start |-> data, size |-> Size(content)]

\* line 53 in process p: what p computed goes into the file p opened, from
\* its first byte on
RaceAddWriteIndex(p) ==
    /\ pc[p] = "addWriteIndex"
    /\ index' = Overwrite(index, JSONstringify(loc[p].index))
    /\ made' = Append(made, p)
    /\ UNCHANGED added
    /\ pc' = [pc EXCEPT ![p] = "done"]
    /\ UNCHANGED <<objDir, objects, head, cmd, arg, ipc, loc, out, err, pre,
                   nEvents>>

RaceNext ==
    \E p \in Procs :
        \/ RaceInitMkdir(p)
        \/ RaceInitHead(p)
        \/ RaceAddReadFile(p)
        \/ RaceAddOpenObject(p)
        \/ RaceAddWriteObject(p)
        \/ RaceAddOpenReadIndex(p)
        \/ RaceAddStatIndex(p)
        \/ RaceAddReadIndex(p)
        \/ RaceAddOpenIndex(p)
        \/ RaceAddWriteIndex(p)

RaceSpec == RaceInit /\ [][RaceNext]_vars

-----------------------------------------------------------------------------
(* What the repository holds, read the way the program reads it *)

\* The staged entries: the parsed index, none when the file is missing or
\* does not parse.
IndexEntries(f) == IF Parses(f) THEN JSONparse(f) ELSE <<>>

\* The head pointer: the content of HEAD, empty when the file is missing.
HeadHash(f) == IF f = ENOENT THEN EmptyStr ELSE f

CommitKeys == {"timeStamp", "message", "files", "parent"}

\* h names a stored object that parses to a commit record.
IsCommit(h) ==
    /\ h \in DOMAIN objects
    /\ Parses(objects[h])
    /\ DOMAIN JSONparse(objects[h]) = CommitKeys

CommitAt(h) == JSONparse(objects[h])

\* The hashes met by following parent links from h, at most fuel of them;
\* the walk stops at a falsy hash and at a hash that names no commit.
RECURSIVE ChainFrom(_, _)
ChainFrom(h, fuel) ==
    IF fuel = 0 \/ ~Truthy(h) \/ ~IsCommit(h)
      THEN <<>>
      ELSE <<h>> \o ChainFrom(CommitAt(h).parent, fuel - 1)

\* A walk longer than the number of objects would have met a hash twice.
Chain == ChainFrom(HeadHash(head), Cardinality(DOMAIN objects) + 1)

Reverse(s) == [i \in 1..Len(s) |-> s[Len(s) + 1 - i]]

IsPrefix(s, t) == Len(s) <= Len(t) /\ \A i \in 1..Len(s) : s[i] = t[i]

NoRepeat(s) == \A i, j \in 1..Len(s) : s[i] = s[j] => i = j

-----------------------------------------------------------------------------
(* Claims *)

\* The commit invocation has run to its end.
CommitDone == cmd = "commit" /\ pc = "done"

\* C1: when commit(message) has run to completion from a state with staged
\* index I and head h, exactly one object was stored, it is a commit record
\* whose files are I, entry for entry in the same order, and whose parent is
\* h; HEAD holds the hash of that object, and the index is empty.
C1_CommitSnapshot ==
    CommitDone =>
        /\ IsCommit(head)
        /\ CommitAt(head).files = IndexEntries(pre.index)
        /\ CommitAt(head).parent = HeadHash(pre.head)
        /\ head = hashObject(objects[head])
        /\ objects = WriteObject(pre.objects, head, objects[head])
        /\ index = JSONstringify(<<>>)

\* C1 witness: a completed commit of an index with two identical entries.
C1_Witness ==
    /\ CommitDone
    /\ Len(IndexEntries(pre.index)) = 2
    /\ IndexEntries(pre.index)[1] = IndexEntries(pre.index)[2]

\* C2: in every state, also one left by a killed invocation, a non-empty
\* HEAD names a stored commit record, and so does every non-empty parent of a
\* commit on the chain from HEAD.
C2_NoDanglingReference ==
    /\ Truthy(HeadHash(head)) => IsCommit(head)
    /\ \A i \in 1..Len(Chain) :
          Truthy(CommitAt(Chain[i]).parent) => IsCommit(CommitAt(Chain[i]).parent)

\* A stored commit record that is not on the chain from HEAD.
Orphan(h) == IsCommit(h) /\ \A i \in 1..Len(Chain) : Chain[i] # h

\* C2 witness: a commit was killed after its object write (its record is
\* stored and not on the chain), and two commits completed since.
C2_Witness ==
    /\ cmd = "idle"
    /\ Len(Chain) >= 2
    /\ \E h \in DOMAIN objects : Orphan(h)

\* C3, as claimed: the chain from HEAD holds no commit twice, is finite, and
\* ends at a commit with an empty parent, which is the first commit HEAD was
\* ever advanced to.
C3_ChainEndsAtRoot ==
    Truthy(HeadHash(head)) =>
        /\ Len(Chain) >= 1
        /\ Len(Chain) <= Cardinality(DOMAIN objects)
        /\ NoRepeat(Chain)
        /\ ~Truthy(CommitAt(Chain[Len(Chain)]).parent)
        /\ Len(made) >= 1
        /\ Chain[Len(Chain)] = made[1]

\* C4: in every state, every hash in an entry of the index and every hash in
\* the files of a stored commit names a stored object.
C4_HashesAreStored ==
    /\ \A i \in 1..Len(IndexEntries(index)) :
          IndexEntries(index)[i].hash \in DOMAIN objects
    /\ \A h \in DOMAIN objects :
          IsCommit(h) =>
             \A i \in 1..Len(CommitAt(h).files) :
                CommitAt(h).files[i].hash \in DOMAIN objects

\* C4 witness: add has written its blob and is about to write the index
\* entry that names it, while a stored commit already has a file.
C4_Witness ==
    /\ cmd = "add" /\ pc = "addWriteIndex"
    /\ loc.index[Len(loc.index)].hash \in DOMAIN objects
    /\ \E h \in DOMAIN objects : IsCommit(h) /\ Len(CommitAt(h).files) >= 1

\* C5, as claimed: no step removes an object or changes the content stored
\* under a hash, and the object write of an add whose content was already
\* stored leaves the object store exactly as it was.
C5_ObjectsOnlyGrow ==
    [][ /\ \A h \in DOMAIN objects :
             h \in DOMAIN objects' /\ objects'[h] = objects[h]
        /\ ( /\ cmd = "add" /\ pc \in {"addOpenObject", "addWriteObject"}
             /\ loc.fileHash \in DOMAIN pre.objects )
           => objects' = objects ]_vars

\* The add invocation has run to its end.
AddDone == cmd = "add" /\ pc = "done"

\* C6: when add(path) of a file with content C has run to completion from
\* index I, the index is I followed by the one entry {path, hash(C)}, every
\* earlier entry kept in place, and the head pointer is what it was.
C6_AddAppends ==
    AddDone =>
        /\ Parses(index)
        /\ IndexEntries(index) =
              Append(IndexEntries(pre.index),
                     [path |-> arg, hash |-> hashObject(loc.fileData)])
        /\ HeadHash(head) = HeadHash(pre.head)

\* C6 witness: a completed add on an index that already held an identical
\* entry and another entry of the same path.
C6_Witness ==
    /\ AddDone
    /\ Len(IndexEntries(pre.index)) = 2
    /\ \E i, j \in 1..2 :
          /\ IndexEntries(pre.index)[i] = IndexEntries(index)[3]
          /\ IndexEntries(pre.index)[j].path = arg
          /\ IndexEntries(pre.index)[j].hash # IndexEntries(index)[3].hash

\* C7, as claimed: a step after which the staged entries no longer begin
\* with the entries staged before it belongs to the last write of a commit
\* whose record is stored and named by HEAD, and it leaves the index empty;
\* no step of init, add, log or show is such a step.
C7_IndexClearedOnlyByCommit ==
    [][ ~IsPrefix(IndexEntries(index), IndexEntries(index')) =>
           /\ cmd = "commit" /\ pc = "commitOpenIndex"
           /\ IsCommit(loc.commitHash)
           /\ head = loc.commitHash
           /\ CommitAt(head).files = IndexEntries(index)
           /\ IndexEntries(index') = <<>> ]_vars

\* C8: a commit started on an empty index does not fail; when it has
\* completed, HEAD names a new commit whose files are empty and whose parent
\* is the prior head, which is empty when this is the repository's first
\* commit.
C8_EmptyIndexCommit ==
    (cmd = "commit" /\ pre.index = JSONstringify(<<>>)) =>
        /\ pc # "failed"
        /\ pc = "done" =>
             /\ IsCommit(head)
             /\ CommitAt(head).files = <<>>
             /\ CommitAt(head).parent = pre.head
             /\ Len(made) = 1 => ~Truthy(CommitAt(head).parent)
             /\ head # pre.head
             /\ made[Len(made)] = head

\* C8 witness: a completed commit of an empty index on top of an earlier
\* commit.
C8_Witness ==
    /\ CommitDone
    /\ pre.index = JSONstringify(<<>>)
    /\ Truthy(pre.head)
    /\ Len(Chain) = 2

\* What log prints for the commit stored under h.
LogRecord(h) ==
    [timeStamp |-> CommitAt(h).timeStamp, message |-> CommitAt(h).message,
     parent |-> CommitAt(h).parent]

\* The commits of s were made in the reverse of the order in which s holds
\* them: each is a hash HEAD was advanced to, later than the ones after it.
NewestFirst(s) ==
    /\ \A i \in 1..Len(s) : \E k \in 1..Len(made) : made[k] = s[i]
    /\ \A i, j \in 1..Len(s) :
          i < j => \A k, l \in 1..Len(made) :
                      (made[k] = s[i] /\ made[l] = s[j]) => k > l

\* While log runs: it has not failed and has changed neither objects nor
\* index nor HEAD; it has printed the first commits of the chain from HEAD, in
\* chain order and without their files, and stands at the next one; when it
\* has ended it has printed the whole chain, which holds each commit once,
\* the newest first (nothing, with an empty HEAD).
LogWalksChain ==
    cmd = "log" =>
        /\ pc # "failed"
        /\ objects = pre.objects
        /\ HeadHash(head) = HeadHash(pre.head)
        /\ IndexEntries(index) = IndexEntries(pre.index)
        /\ Len(out) <= Len(Chain)
        /\ \A i \in 1..Len(out) : out[i] = LogRecord(Chain[i])
        /\ pc = "logReadCommit" =>
             /\ Len(out) < Len(Chain)
             /\ loc.currentCommitHash = Chain[Len(out) + 1]
        /\ pc = "done" =>
             /\ Len(out) = Len(Chain)
             /\ NoRepeat(Chain)
             /\ NewestFirst(Chain)

\* C9: in every state reachable by init, add and commit invocations, a log
\* that is not killed terminates, and what it prints and leaves is as
\* LogWalksChain says.
C9_LogTerminates ==
    /\ []LogWalksChain
    /\ (cmd = "log") ~> (cmd # "log" \/ pc = "done")

\* C9 witness: log has ended after printing three commits.
C9_Witness == cmd = "log" /\ pc = "done" /\ Len(out) = 3

\* C10, as claimed: show of a hash that names no object ends in the NotFound
\* error (ENOENT), and objects, index and HEAD are what they were.
C10_ShowAbsentIsNotFound ==
    (cmd = "show" /\ arg \notin DOMAIN objects /\ pc \in {"done", "failed"}) =>
        /\ pc = "failed"
        /\ err = "ENOENT"
        /\ objects = pre.objects
        /\ HeadHash(head) = HeadHash(pre.head)
        /\ IndexEntries(index) = IndexEntries(pre.index)

-----------------------------------------------------------------------------
(* C11, C12: show and the entries that have no counterpart in the parent *)

\* show was asked for a stored commit whose parent is a stored commit.
ShowsChild ==
    /\ cmd = "show" /\ IsCommit(arg)
    /\ Truthy(CommitAt(arg).parent) /\ IsCommit(CommitAt(arg).parent)

\* No entry of the parent of the shown commit has the path of its entry i.
NewInChild(i) ==
    LET p == CommitAt(arg).files[i].path
        parentFiles == CommitAt(CommitAt(arg).parent).files
    IN  \A j \in 1..Len(parentFiles) : parentFiles[j].path # p

\* C11: when show is run on a commit that has a parent, an entry whose path
\* no entry of the parent has is reported with "First Commit" and without a
\* diff, and show goes on with the entries after it.
C11_UnmatchedIsFirstCommit ==
    ShowsChild =>
        \A i \in 1..Len(CommitAt(arg).files) :
            NewInChild(i) =>
                /\ ~(pc = "failed" /\ loc.i = i)
                /\ (pc = "done" \/ (pc # "failed" /\ "i" \in DOMAIN loc
                                     /\ loc.i > i))
                     => out[2 * i + 1].kind = "First Commit"

\* show was asked for a stored commit that has no parent.
ShowsRoot ==
    /\ cmd = "show" /\ IsCommit(arg)
    /\ ~Truthy(CommitAt(arg).parent)

\* The records that stand for entry i when every entry is printed and then
\* reported with a notice: positions 2i and 2i + 1 of the output.
C12_Reported(i) ==
    /\ Len(out) >= 2 * i + 1
    /\ out[2 * i].kind = "file"
    /\ out[2 * i].path = CommitAt(arg).files[i].path
    /\ out[2 * i + 1].kind = "First Commit"

\* C12: when show is run on a commit that has no parent, every entry of the
\* commit is reported as part of the first commit, no diff is printed and the
\* parent is never loaded.
C12_RootIsInitialCommit ==
    ShowsRoot =>
        /\ pc \notin {"showReadParent", "showReadParentFile"}
        /\ \A k \in 1..Len(out) : out[k].kind # "diff"
        /\ pc = "done" =>
             \A i \in 1..Len(CommitAt(arg).files) : C12_Reported(i)

-----------------------------------------------------------------------------
(* C13: what init leaves *)

\* C13: once the init of an invocation has run to its end, the objects
\* directory, the HEAD file and the index file are all present.  (init ends
\* by reaching the end of its try block or of its catch block; it never
\* fails.)
C13_InitCompletesLayout ==
    (cmd # "idle" /\ ipc = "done") =>
        /\ objDir
        /\ head # ENOENT
        /\ index # ENOENT

-----------------------------------------------------------------------------
(* C14: an add or a commit that is rejected *)

\* C14: when an add or a commit fails, the stored objects, the staged entries
\* and the head pointer are what they were when the invocation started.
C14_FailureLeavesNoEffect ==
    (cmd \in {"add", "commit"} /\ pc = "failed") =>
        /\ objects = pre.objects
        /\ IndexEntries(index) = IndexEntries(pre.index)
        /\ HeadHash(head) = HeadHash(pre.head)

-----------------------------------------------------------------------------
(* C15: the line diff *)

\* The lines of the parts that belong to one side, in order: the old text
\* has the parts that are not added, the new text those that are not removed.
OnSide(part, side) == IF side = "old" THEN ~part.added ELSE ~part.removed

RECURSIVE JoinParts(_, _)
JoinParts(parts, side) ==
    IF parts = <<>> THEN <<>>
    ELSE (IF OnSide(parts[1], side) THEN parts[1].value ELSE <<>>)
           \o JoinParts(Tail(parts), side)

\* Every part is of one kind and is a run of whole lines of the texts.
WellFormedParts(parts) ==
    \A k \in 1..Len(parts) :
        /\ ~(parts[k].added /\ parts[k].removed)
        /\ \A n \in 1..Len(parts[k].value) :
              parts[k].value[n] \in DiffLineSet

\* C15: for every pair of texts, the parts of their line diff that are not
\* added, joined in order, are the old text, the parts that are not removed
\* are the new text, and every part is made of whole lines.
C15_DiffRoundTrip ==
    (cmd = "diff" /\ pc = "done") =>
        /\ JoinParts(out, "old") = arg.old.lines
        /\ JoinParts(out, "new") = arg.new.lines
        /\ WellFormedParts(out)

\* The diff of two texts that share a line and differ in others ran.
C15_Witness ==
    /\ cmd = "diff" /\ pc = "done"
    /\ arg.old.lines = <<"a\n", "b\n", "c\n">>
    /\ arg.new.lines = <<"b\n", "a\n">>
    /\ \E i, j, k \in 1..Len(out) :
         /\ out[i].added /\ out[j].removed
         /\ ~out[k].added /\ ~out[k].removed

-----------------------------------------------------------------------------
(* C16: a commit that stops between its writes *)

\* The files of the commit that HEAD content h names among the objects objs,
\* none when there is no such commit.
FilesOf(h, objs) ==
    IF h \in DOMAIN objs /\ Parses(objs[h]) THEN JSONparse(objs[h]).files
    ELSE <<>>

\* The index begins with the entries of the commit that HEAD names: entries
\* that were committed and never cleared.
StaleIn(h, idx, objs) ==
    /\ FilesOf(h, objs) # <<>>
    /\ IsPrefix(FilesOf(h, objs), IndexEntries(idx))

\* (a) the head pointer and the index are as at the start and the new commit
\* is stored off the chain.
StoppedAfterObject ==
    /\ HeadHash(head) = HeadHash(pre.head)
    /\ Parses(index)
    /\ IndexEntries(index) = IndexEntries(pre.index)
    /\ IsCommit(loc.commitHash)
    /\ \A i \in 1..Len(Chain) : Chain[i] # loc.commitHash

\* (b) HEAD names the new commit and the index still holds its entries.
StoppedAfterHead ==
    /\ head = loc.commitHash
    /\ IsCommit(head)
    /\ Parses(index)
    /\ IndexEntries(index) = IndexEntries(pre.index)
    /\ CommitAt(head).files = IndexEntries(index)

\* Before its first write a commit has changed nothing; from then on, and
\* until its last write is done, the files are in state (a) or in state (b):
\* in (a) once the object is written, in (b) once HEAD is written.
CommitWritesInOrder ==
    cmd = "commit" =>
        /\ pc \in {"commitReadIndex", "commitReadHead", "commitOpenObject"}
             => /\ objects = pre.objects
                /\ HeadHash(head) = HeadHash(pre.head)
                /\ IndexEntries(index) = IndexEntries(pre.index)
        /\ pc \in {"commitWriteObject", "commitOpenHead", "commitWriteHead",
                   "commitOpenIndex", "commitWriteIndex"}
             => StoppedAfterObject \/ StoppedAfterHead
        /\ pc = "commitOpenHead" => StoppedAfterObject
        /\ pc = "commitOpenIndex" => StoppedAfterHead

\* A commit that completes on an index that began with the entries of the
\* commit HEAD named has those entries again, first.
StaleIsCommittedAgain ==
    (CommitDone /\ StaleIn(pre.head, pre.index, pre.objects)) =>
        /\ CommitAt(head).parent = pre.head
        /\ IsPrefix(FilesOf(pre.head, pre.objects), CommitAt(head).files)

\* C16, as claimed: commit writes the commit object, then HEAD, then the
\* index, and stopped part-way it leaves one of two states: after the object
\* write, HEAD and the index unchanged and the new commit stored but
\* unreachable; after the HEAD write, HEAD naming the new commit and the
\* index still holding the committed entries, which the next completed
\* commit has again, ahead of entries added since.
C16_CommitWriteOrder == CommitWritesInOrder /\ StaleIsCommittedAgain

---------
(* C17: two adds at once *)

\* The entry process p stages.
RaceEntry(p) == [path |-> arg[p], hash |-> loc[p].fileHash]

\* Every process read the index the run started with: what it computed is
\* that index with its own entry pushed.
AllReadFirst ==
    \A p \in Procs :
        /\ "index" \in DOMAIN loc[p]
        /\ loc[p].index = Append(IndexEntries(pre.index), RaceEntry(p))

\* C17, as claimed: when two processes run add at once and both read the index before
\* either writes it, the index ends as the last writer wrote it, with that
\* writer's entry alone after the entries both read; the other entry is not
\* staged although its blob is stored, and both adds end without an error.
C17_LastWriterWins ==
    (cmd = "race" /\ (\A p \in Procs : pc[p] \in {"done", "failed"})
                  /\ AllReadFirst) =>
        LET last == made[Len(made)] IN
        /\ Len(made) = Cardinality(Procs)
        /\ index = JSONstringify(Append(IndexEntries(pre.index),
                                        RaceEntry(last)))
        /\ \A p \in Procs :
             /\ pc[p] = "done" /\ err[p] = "none"
             /\ loc[p].fileHash \in DOMAIN objects
             /\ objects[loc[p].fileHash] = loc[p].fileData

-----------------------------------------------------------------------------
(* C18: which texts show compares *)

\* The least position of files whose entry has path p.
FirstWithPath(files, p) ==
    LET at == {j \in 1..Len(files) : files[j].path = p}
    IN  CHOOSE j \in at : \A k \in at : j <= k

\* C18: when show is run on a commit with a parent, the output is the commit
\* record and then, for the entries in stored order, each entry's own record
\* (path and blob) followed by what the comparison gave; the entry of the
\* parent that show takes is the first of the parent's files that has the
\* entry's path, the old text of the diff is its blob and the new text is the
\* blob of the entry, and entries of one path are each given their own
\* records.  (Line 121 prints the notice in place of the diff when the old
\* text is the word undefined.)
C18_ShowComparesFirstMatch ==
    ShowsChild =>
        LET files == CommitAt(arg).files
            parentFiles == CommitAt(CommitAt(arg).parent).files
            First(i) == parentFiles[FirstWithPath(parentFiles, files[i].path)]
        IN  /\ Len(out) <= 2 * Len(files) + 1
            /\ pc = "done" => Len(out) = 2 * Len(files) + 1
            /\ Len(out) >= 1 => out[1] = [kind |-> "commit",
                                          data |-> CommitAt(arg)]
            /\ pc = "showReadParentFile" => loc.parentFile = First(loc.i)
            /\ \A i \in 1..Len(files) :
                 /\ Len(out) >= 2 * i =>
                      out[2 * i] = [kind |-> "file", path |-> files[i].path,
                                    content |-> objects[files[i].hash]]
                 /\ Len(out) >= 2 * i + 1 =>
                      /\ ~NewInChild(i)
                      /\ IF objects[First(i).hash] = Text(<<"undefined">>)
                           THEN out[2 * i + 1].kind = "First Commit"
                           ELSE /\ out[2 * i + 1].kind = "diff"
                                /\ out[2 * i + 1].old = objects[First(i).hash]
                                /\ out[2 * i + 1].new = objects[files[i].hash]

\* show completed on a commit with two entries of one path and two texts,
\* whose parent also has that path twice with two texts: the second entry was
\* compared with the parent's first.
C18_Witness ==
    /\ ShowsChild /\ pc = "done"
    /\ LET files == CommitAt(arg).files
           parentFiles == CommitAt(CommitAt(arg).parent).files
       IN  /\ Len(files) = 2 /\ Len(parentFiles) = 2
           /\ files[1].path = files[2].path
           /\ parentFiles[1].path = files[1].path
           /\ parentFiles[2].path = files[1].path
           /\ parentFiles[1].hash # parentFiles[2].hash
           /\ out[5].kind = "diff"
           /\ out[5].old = objects[parentFiles[1].hash]
           /\ out[5].new = objects[files[2].hash]
           /\ out[5].old # out[5].new

-----------------------------------------------------------------------------
(* C19: where the added entries are recorded *)

RECURSIVE Flatten(_)
Flatten(ss) == IF ss = <<>> THEN <<>> ELSE Head(ss) \o Flatten(Tail(ss))

\* The files of the commits of the chain, from the root commit to HEAD,
\* followed by the staged entries.
Recorded ==
    Flatten([i \in 1..Len(Chain) |-> CommitAt(Reverse(Chain)[i]).files])
      \o IndexEntries(index)

\* C19: when no invocation is killed, between invocations the files of the
\* commits from the root to HEAD followed by the index are the entries of
\* the adds that completed, in the order they were made.
C19_EveryAddRecordedOnce ==
    cmd = "idle" => Recorded = added

\* An add, a commit that holds its entry, and a second add whose entry is
\* staged.
C19_Witness ==
    /\ cmd = "idle"
    /\ Len(Chain) = 1
    /\ Len(CommitAt(head).files) = 1
    /\ Len(IndexEntries(index)) = 1
    /\ Len(added) = 2
    /\ added[1] # added[2]

-----------------------------------------------------------------------------
(* C20: init beside the method of the same invocation *)

\* The step is a step of the init() that the constructor started.
IsInitStep ==
    /\ cmd # "idle" /\ cmd' = cmd
    /\ ipc \in {"mkdir", "head", "index", "indexWrite"}
    /\ ipc' # ipc

\* The step fills the index file that this same init() created a moment ago
\* (the two halves of the one writeFile of line 26): the file did not exist
\* when the invocation started and nothing was written to it since.
FillsOwnIndex ==
    /\ ipc = "indexWrite"
    /\ pre.index = ENOENT
    /\ index = EmptyStr
    /\ index' = JSONstringify(<<>>)

\* C20: init runs beside the method of its invocation, and no step of it
\* changes a HEAD or an index that exists, whether an earlier invocation
\* left it or the method wrote it: the head pointer is never reset and no
\* staged entry is dropped.
C20_InitKeepsExistingFiles ==
    [][IsInitStep =>
         /\ head # ENOENT => head' = head
         /\ index # ENOENT => (index' = index \/ FillsOwnIndex)
         /\ HeadHash(head') = HeadHash(head)
         /\ IndexEntries(index') = IndexEntries(index)
         /\ objects' = objects]_vars

\* A commit has written HEAD, with entries in its commit, while the init of
\* the same invocation has still to try its creation of HEAD.
C20_Witness ==
    /\ cmd = "commit" /\ pc = "done"
    /\ ipc = "head"
    /\ head = loc.commitHash
    /\ Len(loc.index) >= 1
    /\ head # pre.head
====
